---- MODULE Spec2Model ----
(***************************************************************************)
(* Model of sebi-reference-finder.js: one run of main() over a local       *)
(* circular collection, the inference payload and the resolution of the    *)
(* candidates against the local index (EnhancedAIReferenceFinder).         *)
(***************************************************************************)
EXTENDS Integers, Sequences, FiniteSets, TLC

VARIABLES
    pc,                 \* where main() is
    exitCode,           \* status the process ended with, -1 while it runs
    msg,                \* the failure message printed last
    pdfFile,            \* the path given on the command line
    srcExists,          \* fs.pathExists(pdfFile)
    srcReadable,        \* whether the text of pdfFile can be extracted
    dirExists,          \* fs.pathExists(circularsPath)
    listing,            \* fs.readdir(circularsPath)
    fileOutcome,        \* what reading each listed file does
    pdfFiles,           \* the files loadLocalCirculars iterates over
    loadIdx,            \* the next file of pdfFiles to load
    attempts,           \* how often extractMetadata ran for each file
    localCirculars,     \* this.localCirculars
    aiCalls,            \* how often generateContent was called
    aiStatus,           \* how analyzeWithEnhancedAI ended
    references,         \* what analyzeWithEnhancedAI returned
    enhancedReferences, \* what enhanceReferencesWithAvailability returned
    report              \* the JSON file saveResults wrote

vars == <<pc, exitCode, msg, pdfFile, srcExists, srcReadable, dirExists,
          listing, fileOutcome, pdfFiles, loadIdx, attempts, localCirculars,
          aiCalls, aiStatus, references, enhancedReferences, report>>

(* ---------------------------- bounds ----------------------------------- *)

\* longest array of candidate records the inference payload decodes to
MaxRefs == 2

\* longest text, in fragments, of a local file whose metadata is extracted
MaxTextLen == 3

(* ------------------------- JavaScript values ---------------------------- *)

JSundefined == "<undefined>"
JSnull == "<null>"

\* a JS value used as a property key: its type and its string coercion
JSVal(t, s) == [t |-> t, s |-> s]
Str(s) == JSVal("string", s)
Undef == JSVal("undefined", "undefined")

\* ToBoolean
Truthy(v) ==
    ~ \/ v.t \in {"undefined", "null"}
      \/ (v.t = "string" /\ v.s = "")
      \/ (v.t = "number" /\ v.s \in {"0", "NaN"})
      \/ (v.t = "boolean" /\ v.s = "false")

\* a || ''
OrEmpty(v) == IF Truthy(v) THEN v ELSE Str("")

\* property names every plain object inherits from Object.prototype
ObjectPrototypeKeys ==
    {"constructor", "toString", "valueOf", "hasOwnProperty", "__proto__"}

\* key in obj : own keys and inherited ones, the key coerced to a string
In(v, obj) == v.s \in (DOMAIN obj \cup ObjectPrototypeKeys)

(* ---------------------------- file names -------------------------------- *)

FileNames == {"doc.pdf", "circA.pdf", "circB.pdf", "CIRC.PDF", "notes.txt"}

\* the characters of a name from its last dot on
Ext(name) ==
    CASE name \in {"doc.pdf", "circA.pdf", "circB.pdf"} -> ".pdf"
      [] name = "CIRC.PDF" -> ".PDF"
      [] name = "notes.txt" -> ".txt"
      [] OTHER -> ""

toLowerCase(s) == IF s = ".PDF" THEN ".pdf" ELSE s

\* file.toLowerCase().endsWith('.pdf')
endsWithPdf(name) == toLowerCase(Ext(name)) = ".pdf"

\* path.basename : the last segment of a path
basename(p) == p[Len(p)]

LOCAL_CIRCULARS_DIR == "circulars"

\* path.resolve(path.join(circularsPath, pdfFile))
resolvePath(name) == <<"app", LOCAL_CIRCULARS_DIR, name>>

(* ------------------------ document text --------------------------------- *)
\* A text is a sequence of fragments.  k is what the fragment is, v the
\* value a pattern captures from it, w the whole match, n the length of v.
Frag(k, v, w, n) == [k |-> k, v |-> v, w |-> w, n |-> n]

CanonA == Frag("canon", "SEBI/HO/MIRSD/CIR/P/2021/670", "SEBI/HO/MIRSD/CIR/P/2021/670", 28)
CanonB == Frag("canon", "SEBI/HO/IMD/CIR/P/2019/12", "SEBI/HO/IMD/CIR/P/2019/12", 25)
LabelPlain == Frag("label", "IA-12", "Circular No. IA-12", 5)
LabelSlash == Frag("label", "IA/12", "Circular No. IA/12", 5)
Subject11 == Frag("subject", "Fee changes", "Subject: Fee changes", 11)
Subject10 == Frag("subject", "Fee change", "Subject: Fee change", 10)
Re11 == Frag("re", "Levy update", "Re: Levy update", 11)
DateA == Frag("date", "March 15, 2021", "March 15, 2021", 14)
TermKyc == Frag("term", "kyc", "KYC", 3)
TermAudit == Frag("term", "audit", "Audit", 5)
Noise == Frag("noise", "", "lorem", 0)

TextFull == <<TermKyc, LabelPlain, Subject11, CanonA, DateA, TermAudit>>
TextBare == <<Noise>>
TextEmpty == <<>>

SampleTexts == {TextFull, TextBare, TextEmpty}

\* index of the first fragment of kind k, 0 when there is none
RECURSIVE FirstOf(_, _, _)
FirstOf(text, k, i) ==
    IF i > Len(text) THEN 0
    ELSE IF text[i].k = k THEN i
    ELSE FirstOf(text, k, i + 1)

\* the fragments a text is made of
Fragments == {CanonA, CanonB, LabelPlain, LabelSlash, Subject11, Subject10,
              Re11, DateA, TermKyc, TermAudit, Noise}

\* match[0].includes('/')
includesSlash(frag) == frag.w \in {CanonA.w, CanonB.w, LabelSlash.w}

extractCircularNumber(text) ==
    LET c == FirstOf(text, "canon", 1)
        l == FirstOf(text, "label", 1)
    IN  IF c # 0 THEN text[c].w
        ELSE IF l # 0
             THEN (IF includesSlash(text[l]) THEN text[l].w ELSE text[l].v)
             ELSE JSnull

\* value of a labelled line when it is longer than 10 characters
SubjectOf(text, k) ==
    LET i == FirstOf(text, k, 1)
    IN  IF i # 0 /\ text[i].n > 10 THEN text[i].v ELSE JSnull

extractSubject(text) ==
    IF SubjectOf(text, "subject") # JSnull THEN SubjectOf(text, "subject")
    ELSE SubjectOf(text, "re")

extractDate(text) ==
    LET i == FirstOf(text, "date", 1)
    IN  IF i # 0 THEN text[i].w ELSE JSnull

terms == <<"investment adviser", "registrar", "depository", "mutual fund",
           "portfolio", "compliance", "audit", "charter", "framework",
           "guidelines", "norms", "requirements", "risk management",
           "kyc", "aml", "disclosure", "governance", "intermediary">>

\* textLower.includes(term)
Includes(text, term) ==
    \E i \in 1..Len(text) : text[i].k = "term" /\ text[i].v = term

\* extractKeyTerms that walks the text and not the vocabulary
RECURSIVE extractKeyTermsInTextOrder(_)
extractKeyTermsInTextOrder(text) ==
    IF text = <<>> THEN <<>>
    ELSE IF Head(text).k = "term"
    THEN <<Head(text).v>> \o extractKeyTermsInTextOrder(Tail(text))
    ELSE extractKeyTermsInTextOrder(Tail(text))

extractKeyTerms(text) ==
    SelectSeq(terms, LAMBDA term : Includes(text, term))

(* ---------------------- metadata of a local file ------------------------ *)
\* What reading one local file does: fs.readFile may throw, pdfParse may
\* throw, otherwise data.text is the text of the first two pages.
FileOutcome(readOk, parseOk, text) ==
    [readOk |-> readOk, parseOk |-> parseOk, text |-> text]

FileOutcomes ==
    {FileOutcome(FALSE, FALSE, TextEmpty), FileOutcome(TRUE, FALSE, TextEmpty)}
    \cup {FileOutcome(TRUE, TRUE, t) : t \in SampleTexts}

\* the try block of extractMetadata ran to its return
extractionSucceeded(o) == o.readOk /\ o.parseOk

NoMetadata ==
    [isNull |-> TRUE, circular_number |-> JSnull, subject |-> JSnull,
     date |-> JSnull, key_terms |-> <<>>]

extractMetadata(o) ==
    IF o.readOk /\ o.parseOk
    THEN [isNull |-> FALSE,
          circular_number |-> extractCircularNumber(o.text),
          subject |-> extractSubject(o.text),
          date |-> extractDate(o.text),
          key_terms |-> extractKeyTerms(o.text)]
    ELSE NoMetadata

\* the entry loadLocalCirculars stores for a file
IndexEntry(name, metadata) ==
    [file_path |-> resolvePath(name),
     filename |-> name,
     circular_number |-> metadata.circular_number,
     subject |-> metadata.subject,
     date |-> metadata.date,
     key_terms |-> metadata.key_terms]

\* loadOne without the test "if (metadata)"
loadOneUnchecked(index, name, o) ==
    [k \in DOMAIN index \cup {name} |->
        IF k = name THEN IndexEntry(name, extractMetadata(o)) ELSE index[k]]

\* the body of the for loop of loadLocalCirculars for one file
loadOne(index, name, o) ==
    LET metadata == extractMetadata(o)
    IN  IF ~ metadata.isNull
        THEN [k \in DOMAIN index \cup {name} |->
                 IF k = name THEN IndexEntry(name, metadata) ELSE index[k]]
        ELSE index

(* ------------------------ candidate records ----------------------------- *)

\* local_file of a reference; present is FALSE when the property is not set
NoLocalFile ==
    [present |-> FALSE, filename |-> JSundefined, file_path |-> <<>>,
     circular_number |-> JSundefined, subject |-> JSundefined,
     date |-> JSundefined]

\* One element of the decoded payload.  t is its JavaScript type; the
\* properties of an element that is not an object read as undefined.
Element(t, text, mt) ==
    [t |-> t, exact_text |-> text, confidence |-> Undef,
     matched_target |-> mt, availability_status |-> JSundefined,
     note |-> JSundefined, local_file |-> NoLocalFile]

Candidate(text, mt) == Element("object", text, mt)
NullElement == Element("null", JSundefined, Undef)
NumberElement == Element("number", JSundefined, Undef)
CharElement == Element("string", JSundefined, Undef)

\* matched_target values the payload may carry
MatchedTargets ==
    {Undef, Str(""), Str("external_reference"), Str("circA.pdf"),
     Str("circB.pdf"), Str("unknown.pdf"), Str("constructor"),
     JSVal("number", "5"), JSVal("array", "circA.pdf")}

\* a record without exact_text that already carries the fields the
\* resolution sets: availability_status, note and local_file
Precarried ==
    [Candidate(JSundefined, Str("external_reference")) EXCEPT
        !.availability_status = "available_locally",
        !.note = "from the payload",
        !.local_file = [NoLocalFile EXCEPT !.present = TRUE, !.filename = "payload.pdf"]]

\* records that also carry a confidence: the tag asked for, or a number
WithConfidence ==
    {[Candidate("ref", Str("external_reference")) EXCEPT !.confidence = Str("high")],
     [Candidate("ref", Str("circB.pdf")) EXCEPT !.confidence = JSVal("number", "1")]}

Candidates ==
    {Candidate("ref", mt) : mt \in MatchedTargets} \cup WithConfidence \cup {Precarried}

Elements == Candidates \cup {NullElement, NumberElement, CharElement}

RECURSIVE SeqsUpTo(_, _)
SeqsUpTo(S, n) ==
    IF n = 0 THEN {<<>>}
    ELSE LET shorter == SeqsUpTo(S, n - 1)
         IN  shorter \cup {Append(q, e) : q \in shorter, e \in S}

(* ------------------------ inference payload ----------------------------- *)

\* a decoded JSON value: an array of elements, a string (its characters),
\* or an object, a number or null
JSON(t, items) == [t |-> t, items |-> items]
EmptyArray == JSON("array", <<>>)

DecodedValues ==
    {JSON("array", q) : q \in SeqsUpTo(Elements, MaxRefs)}
    \cup {JSON("string", <<CharElement, CharElement>>), JSON("string", <<>>),
          JSON("object", <<>>), JSON("number", <<>>), JSON("null", <<>>)}

\* The response text as a sequence of tokens: a code fence, the word json,
\* white space, the text of one JSON value, or text that is not JSON.
Tok(tok, val) == [tok |-> tok, val |-> val]
Fence == Tok("fence", JSON("none", <<>>))
JsonWord == Tok("json", JSON("none", <<>>))
WS == Tok("ws", JSON("none", <<>>))
Garbage == Tok("garbage", JSON("none", <<>>))
Value(v) == Tok("value", v)

Prefixes == {<<>>, <<Fence, JsonWord, WS>>, <<Fence, WS>>}
Suffixes == {<<>>, <<WS, Fence, WS>>, <<Garbage>>}
Bodies == {<<Value(v)>> : v \in DecodedValues} \cup {<<Garbage>>, <<>>}

Responses == {pre \o body \o post : pre \in Prefixes, body \in Bodies, post \in Suffixes}

RECURSIVE trimStart(_)
trimStart(r) ==
    IF r # <<>> /\ Head(r) = WS THEN trimStart(Tail(r)) ELSE r

RECURSIVE trimEnd(_)
trimEnd(r) ==
    IF r # <<>> /\ r[Len(r)] = WS THEN trimEnd(SubSeq(r, 1, Len(r) - 1)) ELSE r

trim(r) == trimEnd(trimStart(r))

\* the "Clean response" block of analyzeWithEnhancedAI
stripWrappers(responseText) ==
    LET r0 == trim(responseText)
        r1 == IF Len(r0) >= 2 /\ r0[1] = Fence /\ r0[2] = JsonWord
              THEN SubSeq(r0, 3, Len(r0)) ELSE r0
        r2 == IF r1 # <<>> /\ r1[1] = Fence THEN Tail(r1) ELSE r1
        r3 == IF r2 # <<>> /\ r2[Len(r2)] = Fence
              THEN SubSeq(r2, 1, Len(r2) - 1) ELSE r2
    IN  trim(r3)

\* JSON.parse : the text of exactly one value, white space around it allowed
JSONparse(r) ==
    LET body == SelectSeq(r, LAMBDA tk : tk # WS)
    IN  IF Len(body) = 1 /\ body[1].tok = "value"
        THEN [threw |-> FALSE, value |-> body[1].val]
        ELSE [threw |-> TRUE, value |-> JSON("none", <<>>)]

\* What the inference call does: it throws, or it answers with a text.
AICall(threw, responseText) == [threw |-> threw, responseText |-> responseText]
AICalls == {AICall(TRUE, <<>>)} \cup {AICall(FALSE, r) : r \in Responses}

\* analyzeResponse whose catch block returns null in the place of []
analyzeResponseNull(call) ==
    IF call.threw THEN [status |-> "callThrew", references |-> JSON("null", <<>>)]
    ELSE LET parsed == JSONparse(stripWrappers(call.responseText))
         IN  IF parsed.threw
             THEN [status |-> "parseThrew", references |-> JSON("null", <<>>)]
             ELSE IF parsed.value.t = "null"
             THEN [status |-> "lengthThrew", references |-> JSON("null", <<>>)]
             ELSE [status |-> "returned", references |-> parsed.value]

\* analyzeWithEnhancedAI once the document text is there: the try block and
\* its catch.  status tells how the block ended.
analyzeResponse(call) ==
    IF call.threw THEN [status |-> "callThrew", references |-> EmptyArray]
    ELSE LET parsed == JSONparse(stripWrappers(call.responseText))
         IN  IF parsed.threw
             THEN [status |-> "parseThrew", references |-> EmptyArray]
             ELSE IF parsed.value.t = "null"
             THEN [status |-> "lengthThrew", references |-> EmptyArray]
             ELSE [status |-> "returned", references |-> parsed.value]

(* --------------------------- resolution --------------------------------- *)

\* this.localCirculars[key].filename
FilenameAt(index, key) ==
    IF key \in DOMAIN index THEN index[key].filename ELSE JSundefined

\* Snapshot that leaves the date out
SnapshotNoDate(index, key) ==
    IF key \in DOMAIN index
    THEN [present |-> TRUE,
          filename |-> index[key].filename,
          file_path |-> index[key].file_path,
          circular_number |-> index[key].circular_number,
          subject |-> index[key].subject,
          date |-> JSundefined]
    ELSE [NoLocalFile EXCEPT !.present = TRUE]

\* the local_file object built from this.localCirculars[key]
Snapshot(index, key) ==
    IF key \in DOMAIN index
    THEN [present |-> TRUE,
          filename |-> index[key].filename,
          file_path |-> index[key].file_path,
          circular_number |-> index[key].circular_number,
          subject |-> index[key].subject,
          date |-> index[key].date]
    ELSE [NoLocalFile EXCEPT !.present = TRUE]

\* { ...ref } : the copy is an object whatever ref was
Spread(ref) == [ref EXCEPT !.t = "object"]

\* ref.matched_target || '' ; an element that is not an object has no
\* such property
matchedTargetOf(ref) ==
    OrEmpty(IF ref.t = "object" THEN ref.matched_target ELSE Undef)

\* isSelfReference with !== in the place of ===
isSelfReferenceInverted(matchedTarget, index, sourceFilename) ==
    /\ In(matchedTarget, index)
    /\ FilenameAt(index, matchedTarget.s) # sourceFilename

\* "Check if it's a self-reference"
isSelfReference(matchedTarget, index, sourceFilename) ==
    /\ In(matchedTarget, index)
    /\ FilenameAt(index, matchedTarget.s) = sourceFilename

\* the branch "we have this file locally"
markLocal(ref, index, matchedTarget) ==
    [Spread(ref) EXCEPT !.availability_status = "available_locally",
                        !.local_file = Snapshot(index, matchedTarget.s)]

\* markExternal that sets the note and forgets the status
markExternalNoStatus(ref) ==
    [Spread(ref) EXCEPT !.note = "Referenced document not in local collection"]

\* the else branch
markExternal(ref) ==
    [Spread(ref) EXCEPT !.availability_status = "external_reference",
                        !.note = "Referenced document not in local collection"]

\* One iteration of the loop of enhanceReferencesWithAvailability:
\* it throws, drops the reference (continue) or pushes the enhanced copy.
Classify(ref, index, sourceFilename) ==
    IF ref.t = "null" THEN [act |-> "throw", ref |-> ref]
    ELSE
    LET matchedTarget == matchedTargetOf(ref)
    IN  IF isSelfReference(matchedTarget, index, sourceFilename)
        THEN [act |-> "drop",
              ref |-> [Spread(ref) EXCEPT !.availability_status = "self_reference",
                          !.note = "Document referencing itself - excluded"]]
        ELSE IF In(matchedTarget, index)
        THEN [act |-> "push", ref |-> markLocal(ref, index, matchedTarget)]
        ELSE [act |-> "push", ref |-> markExternal(ref)]

\* EnhanceLoop that also skips a reference whose matched_target an earlier
\* reference of the batch already had
RECURSIVE EnhanceLoopDedup(_, _, _, _)
EnhanceLoopDedup(items, index, sourceFilename, acc) ==
    IF items = <<>> THEN [threw |-> FALSE, error |-> "", list |-> acc]
    ELSE LET c == Classify(Head(items), index, sourceFilename)
             seen == \E i \in 1..Len(acc) :
                        acc[i].matched_target = Head(items).matched_target
         IN  CASE c.act = "throw" ->
                    [threw |-> TRUE, error |-> "Cannot read properties of null",
                     list |-> <<>>]
               [] c.act = "drop" \/ seen ->
                    EnhanceLoopDedup(Tail(items), index, sourceFilename, acc)
               [] OTHER ->
                    EnhanceLoopDedup(Tail(items), index, sourceFilename, Append(acc, c.ref))

RECURSIVE EnhanceLoop(_, _, _, _)
EnhanceLoop(items, index, sourceFilename, acc) ==
    IF items = <<>> THEN [threw |-> FALSE, error |-> "", list |-> acc]
    ELSE LET c == Classify(Head(items), index, sourceFilename)
         IN  CASE c.act = "throw" ->
                    [threw |-> TRUE, error |-> "Cannot read properties of null",
                     list |-> <<>>]
               [] c.act = "drop" -> EnhanceLoop(Tail(items), index, sourceFilename, acc)
               [] OTHER -> EnhanceLoop(Tail(items), index, sourceFilename, Append(acc, c.ref))

\* for (const ref of references) needs an iterable: an array or a string
enhanceReferencesWithAvailability(refs, index, sourceFilename) ==
    IF refs.t \in {"array", "string"}
    THEN EnhanceLoop(refs.items, index, sourceFilename, <<>>)
    ELSE [threw |-> TRUE, error |-> "references is not iterable", list |-> <<>>]

(* ----------------------------- display ---------------------------------- *)

\* String.prototype.toUpperCase on the confidence tags
toUpperCase(s) ==
    CASE s = "unknown" -> "UNKNOWN"
      [] s = "high" -> "HIGH"
      [] s = "medium" -> "MEDIUM"
      [] s = "low" -> "LOW"
      [] OTHER -> s

\* what formatResults prints as "AI Confidence" when it does not throw
displayedConfidence(ref) ==
    toUpperCase(IF Truthy(ref.confidence) THEN ref.confidence.s ELSE "unknown")

\* what formatResults prints as "Text": ref.exact_text || 'N/A'
displayedText(ref) ==
    IF ref.exact_text \in {JSundefined, JSnull, ""} THEN "N/A" ELSE ref.exact_text

\* (ref.confidence || 'unknown').toUpperCase() throws when the confidence
\* is truthy and not a string
toUpperCaseThrows(ref) ==
    Truthy(ref.confidence) /\ ref.confidence.t # "string"

\* formatResults only prints; what matters to the run is whether it throws
\* and whether it printed that no reference was found
formatResults(refs) ==
    IF refs = <<>> THEN [threw |-> FALSE, noReferences |-> TRUE]
    ELSE [threw |-> \E i \in 1..Len(refs) :
                       /\ refs[i].availability_status
                             \in {"available_locally", "external_reference"}
                       /\ toUpperCaseThrows(refs[i]),
          noReferences |-> FALSE]

(* ----------------------------- report ----------------------------------- *)

NoReport ==
    [written |-> FALSE, source_file |-> "", local_circulars_scanned |-> 0,
     summary |-> [total_references |-> 0, local_references |-> 0,
                  external_references |-> 0],
     local_references |-> <<>>, external_references |-> <<>>,
     all_references |-> <<>>]

\* outputData of saveResults
saveResults(refs, sourceFilename, index) ==
    LET localRefs == SelectSeq(refs, LAMBDA r : r.availability_status = "available_locally")
        externalRefs == SelectSeq(refs, LAMBDA r : r.availability_status = "external_reference")
    IN  [written |-> TRUE,
         source_file |-> sourceFilename,
         local_circulars_scanned |-> Cardinality(DOMAIN index),
         summary |-> [total_references |-> Len(refs),
                      local_references |-> Len(localRefs),
                      external_references |-> Len(externalRefs)],
         local_references |-> localRefs,
         external_references |-> externalRefs,
         all_references |-> refs]

(* ------------------------- the run of main() ---------------------------- *)

SourcePaths == {<<"doc.pdf">>, <<"circulars", "circA.pdf">>, <<"in", "CIRC.PDF">>,
                <<"notes.txt">>}

Listings == {<<>>, <<"notes.txt">>, <<"CIRC.PDF">>,
             <<"notes.txt", "circB.pdf", "circA.pdf">>}

Range(q) == {q[i] : i \in 1..Len(q)}

EmptyIndex == [k \in {} |-> NoLocalFile]

Init ==
    /\ pc = "validate"
    /\ exitCode = -1
    /\ msg = "none"
    /\ pdfFile \in SourcePaths
    /\ srcExists \in BOOLEAN
    /\ srcReadable \in BOOLEAN
    /\ dirExists \in BOOLEAN
    /\ listing \in Listings
    /\ (~ dirExists => listing = <<>>)
    /\ (~ srcExists => srcReadable = FALSE)
    /\ fileOutcome \in [Range(listing) -> FileOutcomes]
    /\ \A n \in Range(listing) :
          ~ endsWithPdf(n) => fileOutcome[n] = FileOutcome(FALSE, FALSE, TextEmpty)
    /\ pdfFiles = <<>>
    /\ loadIdx = 1
    /\ attempts = [n \in Range(listing) |-> 0]
    /\ localCirculars = EmptyIndex
    /\ aiCalls = 0
    /\ aiStatus = "none"
    /\ references = EmptyArray
    /\ enhancedReferences = <<>>
    /\ report = NoReport

\* the status of each process.exit of main()
ExitNotFound == 1
ExitNotPdf == 1
ExitNoLocal == 1
ExitError == 1

\* process.exit(status) after an error message
Exit(m, status) ==
    /\ pc' = "exit"
    /\ exitCode' = status
    /\ msg' = m

\* main: "Validate input"
Validate ==
    /\ pc = "validate"
    /\ IF ~ srcExists THEN Exit("not_found", ExitNotFound)
       ELSE IF ~ endsWithPdf(basename(pdfFile)) THEN Exit("not_pdf", ExitNotPdf)
       ELSE pc' = "load" /\ UNCHANGED <<exitCode, msg>>
    /\ UNCHANGED <<pdfFile, srcExists, srcReadable, dirExists, listing,
                   fileOutcome, pdfFiles, loadIdx, attempts, localCirculars,
                   aiCalls, aiStatus, references, enhancedReferences, report>>

\* loadLocalCirculars up to its loop
LoadStart ==
    /\ pc = "load"
    /\ IF ~ dirExists
       THEN pc' = "checkIndex" /\ UNCHANGED pdfFiles
       ELSE pc' = "loadLoop" /\ pdfFiles' = SelectSeq(listing, endsWithPdf)
    /\ UNCHANGED <<exitCode, msg, pdfFile, srcExists, srcReadable, dirExists,
                   listing, fileOutcome, loadIdx, attempts, localCirculars,
                   aiCalls, aiStatus, references, enhancedReferences, report>>

\* LoadFile that tries a file whose extraction failed a second time
LoadFileRetry ==
    /\ pc = "loadLoop"
    /\ loadIdx <= Len(pdfFiles)
    /\ LET name == pdfFiles[loadIdx]
           again == extractMetadata(fileOutcome[name]).isNull /\ attempts[name] = 0
       IN  /\ localCirculars' = loadOne(localCirculars, name, fileOutcome[name])
           /\ attempts' = [attempts EXCEPT ![name] = @ + 1]
           /\ loadIdx' = IF again THEN loadIdx ELSE loadIdx + 1
    /\ UNCHANGED <<pc, exitCode, msg, pdfFile, srcExists, srcReadable, dirExists,
                   listing, fileOutcome, pdfFiles, aiCalls, aiStatus,
                   references, enhancedReferences, report>>

\* one iteration of the loop of loadLocalCirculars
LoadFile ==
    /\ pc = "loadLoop"
    /\ loadIdx <= Len(pdfFiles)
    /\ LET name == pdfFiles[loadIdx]
       IN  /\ localCirculars' = loadOne(localCirculars, name, fileOutcome[name])
           /\ attempts' = [attempts EXCEPT ![name] = @ + 1]
    /\ loadIdx' = loadIdx + 1
    /\ UNCHANGED <<pc, exitCode, msg, pdfFile, srcExists, srcReadable, dirExists,
                   listing, fileOutcome, pdfFiles, aiCalls, aiStatus,
                   references, enhancedReferences, report>>

\* the loop of loadLocalCirculars is over
LoadDone ==
    /\ pc = "loadLoop"
    /\ loadIdx > Len(pdfFiles)
    /\ pc' = "checkIndex"
    /\ UNCHANGED <<exitCode, msg, pdfFile, srcExists, srcReadable, dirExists,
                   listing, fileOutcome, pdfFiles, loadIdx, attempts,
                   localCirculars, aiCalls, aiStatus, references,
                   enhancedReferences, report>>

\* main: "No local circulars found"
CheckIndex ==
    /\ pc = "checkIndex"
    /\ IF DOMAIN localCirculars = {} THEN Exit("no_local", ExitNoLocal)
       ELSE pc' = "analyze" /\ UNCHANGED <<exitCode, msg>>
    /\ UNCHANGED <<pdfFile, srcExists, srcReadable, dirExists, listing,
                   fileOutcome, pdfFiles, loadIdx, attempts, localCirculars,
                   aiCalls, aiStatus, references, enhancedReferences, report>>

\* analyzeWithEnhancedAI when the text of the document cannot be extracted
AnalyzeNoText ==
    /\ pc = "analyze"
    /\ ~ srcReadable
    /\ aiStatus' = "noText"
    /\ references' = EmptyArray
    /\ pc' = "enhance"
    /\ UNCHANGED <<exitCode, msg, pdfFile, srcExists, srcReadable, dirExists,
                   listing, fileOutcome, pdfFiles, loadIdx, attempts,
                   localCirculars, aiCalls, enhancedReferences, report>>

\* analyzeWithEnhancedAI with the text of the document
Analyze ==
    /\ pc = "analyze"
    /\ srcReadable
    /\ \E call \in AICalls :
          LET res == analyzeResponse(call)
          IN  /\ aiStatus' = res.status
              /\ references' = res.references
    /\ aiCalls' = aiCalls + 1
    /\ pc' = "enhance"
    /\ UNCHANGED <<exitCode, msg, pdfFile, srcExists, srcReadable, dirExists,
                   listing, fileOutcome, pdfFiles, loadIdx, attempts,
                   localCirculars, enhancedReferences, report>>

\* Enhance as it would be with "enhancedRef = ref": the fields are set on
\* the records of the input
EnhanceAliased ==
    /\ pc = "enhance"
    /\ LET res == enhanceReferencesWithAvailability(references, localCirculars,
                                                    basename(pdfFile))
       IN  IF res.threw
           THEN Exit(res.error, ExitError) /\ UNCHANGED <<enhancedReferences, references>>
           ELSE /\ enhancedReferences' = res.list
                /\ references' =
                      [references EXCEPT !.items =
                          [i \in 1..Len(references.items) |->
                              Classify(references.items[i], localCirculars,
                                       basename(pdfFile)).ref]]
                /\ pc' = "format"
                /\ UNCHANGED <<exitCode, msg>>
    /\ UNCHANGED <<pdfFile, srcExists, srcReadable, dirExists, listing,
                   fileOutcome, pdfFiles, loadIdx, attempts, localCirculars,
                   aiCalls, aiStatus, report>>

\* main: "Enhance with availability info"; what it throws main catches
Enhance ==
    /\ pc = "enhance"
    /\ LET res == enhanceReferencesWithAvailability(references, localCirculars,
                                                    basename(pdfFile))
       IN  IF res.threw
           THEN Exit(res.error, ExitError) /\ UNCHANGED enhancedReferences
           ELSE /\ enhancedReferences' = res.list
                /\ pc' = "format"
                /\ UNCHANGED <<exitCode, msg>>
    /\ UNCHANGED <<pdfFile, srcExists, srcReadable, dirExists, listing,
                   fileOutcome, pdfFiles, loadIdx, attempts, localCirculars,
                   aiCalls, aiStatus, references, report>>

\* main: "Display results"; what it throws main catches
Format ==
    /\ pc = "format"
    /\ LET res == formatResults(enhancedReferences)
       IN  IF res.threw
           THEN Exit("toUpperCase is not a function", ExitError)
           ELSE /\ pc' = "save"
                /\ msg' = IF res.noReferences THEN "no_references" ELSE msg
                /\ UNCHANGED exitCode
    /\ UNCHANGED <<pdfFile, srcExists, srcReadable, dirExists, listing,
                   fileOutcome, pdfFiles, loadIdx, attempts, localCirculars,
                   aiCalls, aiStatus, references, enhancedReferences, report>>

\* main: "Save results", then the end of the action
Save ==
    /\ pc = "save"
    /\ report' = saveResults(enhancedReferences, basename(pdfFile), localCirculars)
    /\ pc' = "done"
    /\ exitCode' = 0
    /\ UNCHANGED <<msg, pdfFile, srcExists, srcReadable, dirExists, listing,
                   fileOutcome, pdfFiles, loadIdx, attempts, localCirculars,
                   aiCalls, aiStatus, references, enhancedReferences>>

Next ==
    \/ Validate
    \/ LoadStart
    \/ LoadFile
    \/ LoadDone
    \/ CheckIndex
    \/ AnalyzeNoText
    \/ Analyze
    \/ Enhance
    \/ Format
    \/ Save

Spec == Init /\ [][Next]_vars

(* ------------------- the index build over any text ---------------------- *)
\* The run up to the end of the index build, for a collection of one file
\* whose text is any sequence of at most MaxTextLen fragments.

Texts == SeqsUpTo(Fragments, MaxTextLen)

IndexBuildInit ==
    /\ pc = "validate"
    /\ exitCode = -1
    /\ msg = "none"
    /\ pdfFile = <<"doc.pdf">>
    /\ srcExists = TRUE
    /\ srcReadable = TRUE
    /\ dirExists = TRUE
    /\ listing = <<"circA.pdf">>
    /\ \E text \in Texts :
          fileOutcome = [n \in {"circA.pdf"} |-> FileOutcome(TRUE, TRUE, text)]
    /\ pdfFiles = <<>>
    /\ loadIdx = 1
    /\ attempts = [n \in Range(listing) |-> 0]
    /\ localCirculars = EmptyIndex
    /\ aiCalls = 0
    /\ aiStatus = "none"
    /\ references = EmptyArray
    /\ enhancedReferences = <<>>
    /\ report = NoReport

IndexBuildNext ==
    \/ Validate
    \/ LoadStart
    \/ LoadFile
    \/ LoadDone
    \/ CheckIndex

IndexBuildSpec == IndexBuildInit /\ [][IndexBuildNext]_vars

(* ======================================================================= *)
(*                              properties                                  *)
(* ======================================================================= *)

sourceFilename == basename(pdfFile)

\* the run got past enhanceReferencesWithAvailability
Resolved == pc \in {"format", "save", "done"}

\* the payload decoded to an array of records
IsBatch == aiStatus = "returned" /\ references.t = "array"

\* v is a string that is a key of the Local Index
IsIndexKey(v) == v.t = "string" /\ v.s \in DOMAIN localCirculars

\* e names, as its matched_target, the entry of the analysed document
SelfTarget(e) ==
    /\ e.t = "object"
    /\ IsIndexKey(e.matched_target)
    /\ localCirculars[e.matched_target.s].filename = sourceFilename

\* e names, as its matched_target, the entry of another local document
LocalTarget(e) ==
    /\ e.t = "object"
    /\ IsIndexKey(e.matched_target)
    /\ localCirculars[e.matched_target.s].filename # sourceFilename

\* e has no matched_target that is a key of the Local Index
NoTarget(e) == e.t # "object" \/ ~ IsIndexKey(e.matched_target)

Count(q, P(_)) == Len(SelectSeq(q, P))

NoneIn(q, P(_)) == \A i \in 1..Len(q) : ~ P(q[i])

\* C1: a candidate whose matched_target is the index entry of the analysed
\* document is in no list of the result or of the report, and no summary
\* count of the report counts it.
C1_SelfReferenceExcluded ==
    /\ NoneIn(enhancedReferences, SelfTarget)
    /\ report.written =>
          /\ NoneIn(report.all_references, SelfTarget)
          /\ NoneIn(report.local_references, SelfTarget)
          /\ NoneIn(report.external_references, SelfTarget)
          /\ IsBatch =>
                LET others == Count(references.items, LAMBDA e : ~ SelfTarget(e))
                IN  /\ report.summary.total_references <= others
                    /\ report.summary.local_references
                         + report.summary.external_references <= others

C1_Witness ==
    /\ pc = "done"
    /\ IsBatch
    /\ \E i \in 1..Len(references.items) : SelfTarget(references.items[i])
    /\ \E i \in 1..Len(references.items) : LocalTarget(references.items[i])
    /\ report.summary.total_references = 1

\* C2: in the report every reference of all_references is available_locally
\* or external_reference, no reference is in both local_references and
\* external_references, and the total is the sum of the two other counts.
C2_PartitionComplete ==
    report.written =>
       /\ \A i \in 1..Len(report.all_references) :
             report.all_references[i].availability_status
                \in {"available_locally", "external_reference"}
       /\ Range(report.local_references) \cap Range(report.external_references) = {}
       /\ report.summary.total_references =
             report.summary.local_references + report.summary.external_references
       /\ report.summary.total_references = Len(report.all_references)
       /\ report.summary.local_references = Len(report.local_references)
       /\ report.summary.external_references = Len(report.external_references)

C2_Witness ==
    /\ report.written
    /\ IsBatch
    /\ report.summary.local_references = 1
    /\ report.summary.external_references = 1
    /\ report.summary.total_references = 2

\* the snapshot f carries the metadata of the index entry of key k
SnapshotOf(f, k) ==
    /\ f.present
    /\ f.filename = localCirculars[k].filename
    /\ f.file_path = localCirculars[k].file_path
    /\ f.circular_number = localCirculars[k].circular_number
    /\ f.subject = localCirculars[k].subject
    /\ f.date = localCirculars[k].date

ResolvedLocally(r) ==
    /\ r.availability_status = "available_locally"
    /\ SnapshotOf(r.local_file, r.matched_target.s)

\* C3: a candidate whose matched_target is the key of an index entry of
\* another document is resolved as available_locally with a snapshot of that
\* entry's filename, file_path, circular_number, subject and date.
C3_LocalMatchSnapshot ==
    (Resolved /\ IsBatch) =>
       /\ \A i \in 1..Len(enhancedReferences) :
             LocalTarget(enhancedReferences[i]) => ResolvedLocally(enhancedReferences[i])
       /\ Count(enhancedReferences, LocalTarget) = Count(references.items, LocalTarget)

C3_Witness ==
    /\ Resolved
    /\ IsBatch
    /\ \E i \in 1..Len(enhancedReferences) :
          LET r == enhancedReferences[i]
          IN  /\ LocalTarget(r)
              /\ r.matched_target.s = "circB.pdf"
              /\ r.local_file.circular_number = "SEBI/HO/MIRSD/CIR/P/2021/670"
    /\ DOMAIN localCirculars = {"circA.pdf", "circB.pdf"}
    /\ localCirculars["circA.pdf"].circular_number = JSnull

ResolvedExternal(r) ==
    /\ r.availability_status = "external_reference"
    /\ r.note = "Referenced document not in local collection"

\* C4 (as claimed): a candidate whose matched_target is missing, empty, not
\* a string or not a key of the Local Index is resolved as external_reference
\* with the advisory note; it is never available_locally and never dropped.
C4_NoMatchIsExternal ==
    (Resolved /\ IsBatch) =>
       /\ \A i \in 1..Len(enhancedReferences) :
             NoTarget(enhancedReferences[i]) => ResolvedExternal(enhancedReferences[i])
       /\ Count(enhancedReferences, NoTarget) = Count(references.items, NoTarget)

\* the messages of the errors enhanceReferencesWithAvailability throws
EngineErrors == {"Cannot read properties of null", "references is not iterable"}

\* C5 (as claimed): enhanceReferencesWithAvailability returns normally for
\* every sequence of decoded records, malformed ones included: the run never
\* ends on an error raised by it.
C5_EngineNeverRaises ==
    IsBatch => ~ (pc = "exit" /\ msg \in EngineErrors)

\* the inference call threw, or the text it answered with did not parse
InferenceFailed == aiStatus \in {"callThrew", "parseThrew"}

\* C6: when the inference call throws or its payload fails to decode, the
\* analysis yields zero candidates, the run is not aborted, and the report
\* it ends with has total, local and external counts 0.
C6_InferenceFailureIsSoft ==
    InferenceFailed =>
       /\ references = EmptyArray
       /\ pc \in {"enhance", "format", "save", "done"}
       /\ pc \in {"save", "done"} => msg = "no_references"
       /\ Resolved => enhancedReferences = <<>>
       /\ pc = "done" =>
             /\ report.written
             /\ report.summary = [total_references |-> 0, local_references |-> 0,
                                  external_references |-> 0]
             /\ report.all_references = <<>>

C6_Witness ==
    /\ pc = "done"
    /\ aiStatus = "parseThrew"
    /\ aiCalls = 1
    /\ report.written

C6_WitnessThrew ==
    /\ pc = "done"
    /\ aiStatus = "callThrew"
    /\ report.written

\* the payload did not decode to a sequence of records
NotASequence ==
    \/ aiStatus \in {"parseThrew", "lengthThrew"}
    \/ aiStatus = "returned" /\ references.t # "array"

\* C7 (as claimed): when the payload does not decode to a sequence of
\* records the run fails hard: it does not complete, no report is written
\* and no resolved reference is materialized from the payload.
C7_UndecodablePayloadFailsHard ==
    NotASequence =>
       /\ enhancedReferences = <<>>
       /\ pc # "done"
       /\ ~ report.written

\* the files of the collection loadLocalCirculars has to index
Succeeded == {n \in Range(listing) : endsWithPdf(n) /\ extractionSucceeded(fileOutcome[n])}

LoadFinished == pc \in {"checkIndex", "analyze", "enhance", "format", "save", "done"}
                   \/ (pc = "exit" /\ msg \notin {"not_found", "not_pdf"})

\* C8: whatever files fail, loadLocalCirculars runs to its end, the index
\* then holds exactly the files whose extraction succeeded, each under its
\* own name, and a failed file is in the index at no time.
C8_IndexToleratesFailures ==
    /\ DOMAIN localCirculars \subseteq Succeeded
    /\ \A k \in DOMAIN localCirculars : localCirculars[k].filename = k
    /\ (LoadFinished /\ dirExists) =>
          /\ DOMAIN localCirculars = Succeeded
          /\ loadIdx = Len(pdfFiles) + 1
          /\ Range(pdfFiles) = {n \in Range(listing) : endsWithPdf(n)}

C8_Witness ==
    /\ pc = "analyze"
    /\ DOMAIN localCirculars = {"circA.pdf"}
    /\ "circB.pdf" \in Range(listing)
    /\ ~ fileOutcome["circB.pdf"].readOk

\* text extraction of file n works and gives an empty text
EmptyText(n) ==
    /\ n \in Range(listing)
    /\ endsWithPdf(n)
    /\ extractionSucceeded(fileOutcome[n])
    /\ fileOutcome[n].text = TextEmpty

\* C9 (as claimed): a local file whose extracted text is empty is skipped
\* and is never in the Local Index.
C9_EmptyTextIsSkipped ==
    \A n \in FileNames : EmptyText(n) => n \notin DOMAIN localCirculars

CoreInvoked ==
    \/ pdfFiles # <<>>
    \/ loadIdx # 1
    \/ DOMAIN localCirculars # {}
    \/ aiCalls # 0
    \/ aiStatus # "none"
    \/ \E n \in DOMAIN attempts : attempts[n] # 0

\* C10 (as claimed): a missing input and an input that is not a .pdf are
\* rejected before the core is invoked, with non-zero exit statuses that
\* differ between the two reasons.
C10_RejectionsDistinct ==
    /\ (pc = "exit" /\ msg = "not_found") =>
          ~ CoreInvoked /\ exitCode = ExitNotFound /\ exitCode # 0
    /\ (pc = "exit" /\ msg = "not_pdf") =>
          ~ CoreInvoked /\ exitCode # ExitNotFound /\ exitCode # 0
    /\ ~ srcExists => pc \in {"validate", "exit"} /\ msg \in {"none", "not_found"}
    /\ (srcExists /\ ~ endsWithPdf(sourceFilename)) =>
          pc \in {"validate", "exit"} /\ msg \in {"none", "not_pdf"}

\* C11 (as claimed): a candidate record that lacks a confidence or an
\* exact_text is still materialized, and the resolved reference carries
\* a confidence (the tag "unknown" when the record had none) and a text
\* (a placeholder when the record had none), in the result and the report.
C11_MissingFieldsDefaulted ==
    /\ (Resolved /\ IsBatch) =>
          \A i \in 1..Len(enhancedReferences) :
             LET r == enhancedReferences[i]
             IN  /\ r.confidence # Undef
                 /\ r.exact_text # JSundefined
    /\ report.written =>
          \A i \in 1..Len(report.all_references) :
             LET r == report.all_references[i]
             IN  /\ r.confidence # Undef
                 /\ r.exact_text # JSundefined

\* the fields of a record that the payload gave it and the resolution
\* leaves alone
Core(e) == <<e.exact_text, e.confidence, e.matched_target>>

Cores(q) == [i \in 1..Len(q) |-> Core(q[i])]

\* a is b with some members left out, the others in the same order
RECURSIVE IsSubsequence(_, _)
IsSubsequence(a, b) ==
    IF a = <<>> THEN TRUE
    ELSE IF b = <<>> THEN FALSE
    ELSE IF Head(a) = Head(b) THEN IsSubsequence(Tail(a), Tail(b))
    ELSE IsSubsequence(a, Tail(b))

\* C12 (as claimed): the resolved list is the input sequence without its
\* self-references, in the same order, and local_references and
\* external_references are subsequences of it in arrival order.
C12_OrderPreserved ==
    /\ (Resolved /\ IsBatch) =>
          Cores(enhancedReferences)
             = Cores(SelectSeq(references.items, LAMBDA e : ~ SelfTarget(e)))
    /\ report.written =>
          /\ report.all_references = enhancedReferences
          /\ IsSubsequence(report.local_references, report.all_references)
          /\ IsSubsequence(report.external_references, report.all_references)

\* C13: enhanceReferencesWithAvailability changes neither the Local Index
\* nor the candidate records it is given, and no step after the index build
\* changes the Local Index.
C13_NoMutation ==
    [][/\ pc = "enhance" => (references' = references /\ localCirculars' = localCirculars)
       /\ LoadFinished => localCirculars' = localCirculars]_vars

C13_Witness ==
    /\ Resolved
    /\ IsBatch
    /\ Len(references.items) = 2
    /\ Len(enhancedReferences) = 1
    /\ enhancedReferences[1].availability_status = "available_locally"
    /\ enhancedReferences[1].local_file.filename = "circB.pdf"
    /\ \A i \in 1..2 : references.items[i].availability_status = JSundefined
    /\ DOMAIN localCirculars = {"circA.pdf", "circB.pdf"}

\* what resolving the i-th record of the batch alone gives
Alone(i) ==
    enhanceReferencesWithAvailability(JSON("array", <<references.items[i]>>),
                                      localCirculars, sourceFilename)

RECURSIVE Joined(_)
Joined(n) == IF n = 0 THEN <<>> ELSE Joined(n - 1) \o Alone(n).list

\* C14: what the resolution gives for a record depends on that record, the
\* index and the source filename only: the result for a batch is the results
\* of its records resolved one by one, in order, whatever else the batch
\* holds, and the batch fails only if one of its records fails alone.
C14_PerCandidateResolution ==
    /\ (Resolved /\ IsBatch) =>
          /\ enhancedReferences = Joined(Len(references.items))
          /\ \A i \in 1..Len(references.items) : ~ Alone(i).threw
    /\ (IsBatch /\ pc = "exit" /\ msg \in EngineErrors) =>
          \E i \in 1..Len(references.items) : Alone(i).threw

C14_Witness ==
    /\ Resolved
    /\ IsBatch
    /\ Len(references.items) = 2
    /\ references.items[1] = references.items[2]
    /\ Len(enhancedReferences) = 2
    /\ enhancedReferences[1] = enhancedReferences[2]
    /\ enhancedReferences[1].availability_status = "available_locally"

\* C15: in every run the inference call is made at most once and the
\* extraction of each local file is tried at most once, also when it fails.
C15_NeverRetries ==
    /\ aiCalls <= 1
    /\ \A n \in DOMAIN attempts : attempts[n] <= 1
    /\ \A n \in DOMAIN attempts : ~ endsWithPdf(n) => attempts[n] = 0
    /\ (LoadFinished /\ dirExists) =>
          \A n \in DOMAIN attempts : endsWithPdf(n) => attempts[n] = 1
    /\ pc \in {"validate", "load", "loadLoop", "checkIndex", "analyze"} => aiCalls = 0

C15_Witness ==
    /\ pc = "done"
    /\ aiStatus = "callThrew"
    /\ aiCalls = 1
    /\ \E n \in DOMAIN attempts :
          attempts[n] = 1 /\ ~ extractionSucceeded(fileOutcome[n])

(* ------------- properties of the metadata of an indexed file ------------ *)

\* the text of the file n and the entry the index build made of it
TextOf(n) == fileOutcome[n].text
Indexed(n) == n \in DOMAIN localCirculars

\* the fragments of kind k of a text, in the order of the text
OfKind(text, k) == SelectSeq(text, LAMBDA f : f.k = k)

\* C16 (as claimed): with a canonical identifier in the text the circular
\* number is that identifier, also when a "Circular No." label comes first;
\* without one it is the value that follows the first label; with neither
\* it is absent.
C16_CircularNumber ==
    \A n \in DOMAIN localCirculars :
       LET canon == OfKind(TextOf(n), "canon")
           label == OfKind(TextOf(n), "label")
           number == localCirculars[n].circular_number
       IN  /\ canon # <<>> => number = canon[1].v
           /\ (canon = <<>> /\ label # <<>>) => number = label[1].v
           /\ (canon = <<>> /\ label = <<>>) => number = JSnull

\* C17 (as claimed): the first rule with a match, "Subject:" before "Re:",
\* decides the subject alone: absent when its value has 10 characters or
\* less, whatever else the text holds, its value when it has 11 or more.
C17_SubjectFirstRuleDecides ==
    \A n \in DOMAIN localCirculars :
       LET bySubject == OfKind(TextOf(n), "subject")
           byRe == OfKind(TextOf(n), "re")
           deciding == IF bySubject # <<>> THEN bySubject ELSE byRe
           subject == localCirculars[n].subject
       IN  /\ (deciding # <<>> /\ deciding[1].n <= 10) => subject = JSnull
           /\ (deciding # <<>> /\ deciding[1].n >= 11) => subject = deciding[1].v
           /\ deciding = <<>> => subject = JSnull

\* the position of a term in the vocabulary
VocabularyIndex(term) == CHOOSE i \in 1..Len(terms) : terms[i] = term

\* the vocabulary entries that occur in the text, whatever their case
Occurring(text) ==
    {terms[i] : i \in {j \in 1..Len(terms) :
                          \E f \in Range(text) : f.k = "term" /\ f.v = terms[j]}}

\* C18: the key terms are exactly the vocabulary entries that occur in the
\* text, each once, in the order of the vocabulary; so they are the same for
\* texts that hold the same terms in another order.
C18_KeyTermsInVocabularyOrder ==
    \A n \in DOMAIN localCirculars :
       LET found == localCirculars[n].key_terms
       IN  /\ Range(found) = Occurring(TextOf(n))
           /\ Len(found) = Cardinality(Occurring(TextOf(n)))
           /\ \A i, j \in 1..Len(found) :
                 i < j => VocabularyIndex(found[i]) < VocabularyIndex(found[j])

C18_Witness ==
    /\ Indexed("circA.pdf")
    /\ TextOf("circA.pdf") = <<TermKyc, TermAudit, TermKyc>>
    /\ localCirculars["circA.pdf"].key_terms = <<"audit", "kyc">>

\* the status the resolution assigns to a materialized reference
AssignedStatus(r) ==
    IF In(matchedTargetOf(r), localCirculars)
    THEN "available_locally" ELSE "external_reference"

\* C19 (as claimed): a materialized reference carries a local_file exactly
\* when its status is available_locally, and its status is the one the
\* resolution assigned, whatever fields the payload record carried.
C19_SnapshotIffLocal ==
    Resolved =>
       \A i \in 1..Len(enhancedReferences) :
          LET r == enhancedReferences[i]
          IN  /\ r.availability_status = AssignedStatus(r)
              /\ r.local_file.present <=> r.availability_status = "available_locally"

\* the run is over
Terminated == pc \in {"done", "exit"}

\* C20 (as claimed): when the index build ends with no circular the run
\* ends with a non-zero status, without an inference call and without a
\* report; every other run writes the report, after the index build, the
\* inference and the resolution.
C20_RunOrdering ==
    /\ (LoadFinished /\ DOMAIN localCirculars = {}) =>
          /\ pc \in {"checkIndex", "exit"}
          /\ pc = "exit" => exitCode # 0
          /\ aiCalls = 0
          /\ aiStatus = "none"
          /\ ~ report.written
    /\ report.written =>
          /\ pc = "done"
          /\ LoadFinished
          /\ DOMAIN localCirculars # {}
          /\ aiStatus # "none"
          /\ report.all_references = enhancedReferences
    /\ (Terminated /\ LoadFinished /\ DOMAIN localCirculars # {}) =>
          pc = "done" /\ report.written

====
